---- MODULE Spec2Model ----
(***************************************************************************)
(* Model of trpc-db-collection: the sync reconciliation engine of          *)
(* src/src/collection-options.ts (trpcCollectionOptions), with the         *)
(* warm-start cache helpers of src/src/local-storage.ts it calls.          *)
(*                                                                         *)
(* JavaScript runs every callback to completion, so one action is one      *)
(* synchronous stretch of code: from a call or a promise settlement to the *)
(* next await or return.                                                   *)
(***************************************************************************)
EXTENDS Integers, Sequences, FiniteSets, TLC

\* ------------------------------------------------------------------ bounds
MaxRowId == 1
MaxEvents == 2
MaxHandlers == 1
MaxRegs == 2
MaxSubs == 1
MaxOthers == 2
MaxLedger == 3
MaxRedeliveries == 1
MaxSessions == 2
MaxSaved == 2
MaxLogCalls == 2

\* ------------------------------------------------------------- data model
Ids == 1..MaxRowId
Titles == {"a", "b"}
Rows == [id : Ids, title : Titles]
EventActions == {"insert", "update", "delete"}
EventIds == 1..MaxEvents
\* the row an event carries; only the id of a deleted row matters
EventRows(action) ==
    IF action = "delete" THEN {r \in Rows : r.title = "a"} ELSE Rows
Events ==
    {ev \in [id : EventIds, action : EventActions, data : Rows] :
        ev.data \in EventRows(ev.action)}
Handlers == 1..MaxHandlers
Absent == "absent"

\* wire shapes of a subscription message: tagged envelope or positional pair
Envelope(ev) == [shape |-> "object", id |-> ev.id, data |-> ev]
Pair(ev) == [shape |-> "array", elems |-> <<ev.id, ev>>]
Wire(shape, ev) == IF shape = "array" THEN Pair(ev) ELSE Envelope(ev)

\* a normalisation that takes a positional pair for an insert
Normalize_AsInsert(msg) ==
    IF msg.shape = "array"
    THEN [shape |-> "object", id |-> msg.elems[1],
          data |-> [msg.elems[2] EXCEPT !.action = "insert"]]
    ELSE msg

\* onData: if (Array.isArray(event)) event = { id: event[0], data: event[1] }
Normalize(msg) ==
    IF msg.shape = "array"
    THEN [shape |-> "object", id |-> msg.elems[1], data |-> msg.elems[2]]
    ELSE msg

Range(s) == {s[i] : i \in 1..Len(s)}

\* ------------------------------------------------------ warm-start cache
\* A localStorage entry: no entry, the text JSON.stringify wrote for a
\* value, a text that does not decode, the text "null" (decodable, no row
\* array), or a storage whose getItem and setItem throw.
NoEntry == [kind |-> "none", val |-> <<>>]
Garbage == [kind |-> "garbage", val |-> <<>>]
NullText == [kind |-> "null", val |-> <<>>]
Unreadable == [kind |-> "throws", val |-> <<>>]
Stringify(v) == [kind |-> "json", val |-> v]

Null == [null |-> TRUE, val |-> <<>>]
Value(v) == [null |-> FALSE, val |-> v]

\* serializer.parse(data) throws when the serializer argument is undefined
\* (TypeError) or when the text does not decode.
ParseThrows(entry, serializer) ==
    serializer = "undefined" \/ entry.kind = "garbage"

\* the try/catch turns a throwing getItem or parse into null
loadFromLocalStorage(entry, serializer) ==
    IF entry.kind \in {"none", "throws"} THEN Null
    ELSE IF ParseThrows(entry, serializer) THEN Null
    ELSE IF entry.kind = "null" THEN Null
    ELSE Value(entry.val)

\* serializer.stringify throws when the serializer is undefined, setItem
\* when the storage throws; the catch leaves the entry as it was.
saveToLocalStorage(entry, data, serializer) ==
    IF serializer = "undefined" \/ entry.kind = "throws" THEN entry
    ELSE Stringify(data)

MapUpdate(rows, item) ==
    [i \in 1..Len(rows) |-> IF rows[i].id = item.id THEN item ELSE rows[i]]

updateLocalStorageAfterWrite(entry, operation, item, serializer, enabled) ==
    IF ~enabled THEN entry
    ELSE LET loaded == loadFromLocalStorage(entry, serializer)
             currentData == IF loaded.null THEN <<>> ELSE loaded.val
             updatedData ==
                 CASE operation = "insert" -> Append(currentData, item)
                   [] operation = "update" -> MapUpdate(currentData, item)
                   [] operation = "delete" ->
                        SelectSeq(currentData, LAMBDA r : r.id # item.id)
         IN saveToLocalStorage(entry, updatedData, serializer)

RECURSIVE updateAll(_, _, _, _)
updateAll(entry, events, serializer, enabled) ==
    IF events = <<>> THEN entry
    ELSE updateAll(
           updateLocalStorageAfterWrite(entry, Head(events).action,
                                        Head(events).data, serializer, enabled),
           Tail(events), serializer, enabled)

\* ------------------------------------------------------- consuming view
\* begin/write/commit of the sync params: begin opens a pending transaction,
\* write appends to the last one, commit applies the last one to the rows.
EmptyView == [i \in Ids |-> Absent]

ApplyOp(data, op) ==
    IF op.type = "delete"
    THEN [data EXCEPT ![op.value.id] = Absent]
    ELSE [data EXCEPT ![op.value.id] = op.value.title]

RECURSIVE ApplyOps(_, _)
ApplyOps(data, ops) ==
    IF ops = <<>> THEN data ELSE ApplyOps(ApplyOp(data, Head(ops)), Tail(ops))

\* A view is the committed rows, the pending transactions and the history
\* of the committed transactions (op.ev is the id of the event a write
\* comes from, 0 for a row of the cache or of the snapshot).
begin(v) == [v EXCEPT !.tx = Append(@, <<>>)]
write(v, op) == [v EXCEPT !.tx[Len(v.tx)] = Append(@, op)]
commit(v) ==
    LET ops == v.tx[Len(v.tx)]
    IN [rows |-> ApplyOps(v.rows, ops),
        tx |-> SubSeq(v.tx, 1, Len(v.tx) - 1),
        batches |-> Append(v.batches, ops)]

RECURSIVE writeAll(_, _)
writeAll(v, ops) ==
    IF ops = <<>> THEN v ELSE writeAll(write(v, Head(ops)), Tail(ops))

InsertOps(rows) ==
    [i \in 1..Len(rows) |-> [type |-> "insert", value |-> rows[i], ev |-> 0]]
DeleteOps(rows) ==
    [i \in 1..Len(rows) |-> [type |-> "delete", value |-> rows[i], ev |-> 0]]
EventOp(event) == [type |-> event.action, value |-> event.data, ev |-> event.id]
\* the writes of the buffered events, last event first
EventOps_Reversed(events) ==
    [i \in 1..Len(events) |-> EventOp(events[Len(events) + 1 - i])]
\* the writes of the buffered events, in buffer order
EventOps(events) == [i \in 1..Len(events) |-> EventOp(events[i])]

RowSet(data) == {[id |-> i, title |-> data[i]] : i \in {j \in Ids : data[j] # Absent}}

\* snapshots list.query can resolve with: rows with pairwise distinct,
\* ascending ids (the titles of an event may differ from the snapshot's)
SnapshotRow(i) == [id |-> i, title |-> "a"]
RECURSIVE RowsOfIds(_)
RowsOfIds(S) ==
    IF S = {} THEN <<>>
    ELSE LET m == CHOOSE i \in S : \A j \in S : i <= j
         IN <<SnapshotRow(m)>> \o RowsOfIds(S \ {m})
Snapshots == {RowsOfIds(S) : S \in SUBSET Ids}

\* what the collection's localStorage key holds when the session starts
InitialEntries ==
    {NoEntry, Garbage, NullText, Unreadable,
     Stringify(<<[id |-> 1, title |-> "b"]>>)}

\* ------------------------------------------------- event bus (TrpcSync)
Users == {"u1", "u2"}
Regs == 1..MaxRegs
Subs == 1..MaxSubs

\* otherUserIds: undefined, or a list of user ids
NoOthers == [given |-> FALSE, ids |-> <<>>]
Others(ids) == [given |-> TRUE, ids |-> ids]
OtherLists ==
    {NoOthers} \cup {Others(ids) : ids \in UNION {[1..n -> Users] : n \in 0..MaxOthers}}

\* lastEventId of eventsSubscription: null/undefined or an integer
NullId == -1
LastEventIds == {NullId} \cup (0..1)

\* options of eventsSubscription: a subscription without fetchLastEvents is
\* opened with the one id for which the missing function decides the branch
SubscriptionOpts ==
    {o \in [lastEventId : LastEventIds, hasFetch : BOOLEAN] :
        ~o.hasFetch => o.lastEventId = 1}

IdleReg == [st |-> "idle", current |-> "u1", others |-> NoOthers, k |-> 0,
            pending |-> 0, result |-> 0]
NoSub == [st |-> "none", userId |-> "u1", lastEventId |-> NullId,
          hasFetch |-> FALSE, queue |-> <<>>, yielded |-> <<>>,
          queuedInFetch |-> 0]

\* ------------------------------------------- the cache's key-value store
CollectionNames == {"todos", "users"}

\* a key that leaves the collection name out
getLocalStorageKey_Shared(collectionName) == <<"trpc-db-collection-">>

\* `trpc-db-collection-${collectionName}`: the prefix followed by the name
getLocalStorageKey(collectionName) == <<"trpc-db-collection-", collectionName>>

Keys == {getLocalStorageKey(n) : n \in CollectionNames}

\* the values saved: arrays of rows
CacheValues == UNION {[1..n -> Rows] : n \in 0..MaxSaved}

\* localStorage.getItem / setItem / removeItem on the key of a collection
getItem(store, collectionName) == store[getLocalStorageKey(collectionName)]
setItem(store, collectionName, data, serializer) ==
    [store EXCEPT ![getLocalStorageKey(collectionName)] =
        saveToLocalStorage(@, data, serializer)]
clearLocalStorage(store, collectionName) ==
    [store EXCEPT ![getLocalStorageKey(collectionName)] = NoEntry]

\* ------------------------------------------------------------------ Logger
Levels == {"debug", "info", "error", "none"}
Unset == "unset"

\* Partial<LoggerConfig>: each field given or left out
PartialConfigs ==
    [enabled : {"true", "false", Unset}, level : Levels \cup {Unset}]
NoConfig == [enabled |-> Unset, level |-> Unset]

\* constructor: this.config = { enabled: true, level: "info", ...config }
NewLogger(given) ==
    [given |-> given,
     config |-> [enabled |-> IF given.enabled = Unset THEN TRUE
                             ELSE given.enabled = "true",
                 level |-> IF given.level = Unset THEN "info"
                           ELSE given.level]]

\* a debug() that prints at level debug only
debug_Threshold(c) == c.enabled /\ c.level = "debug"

\* the conditions under which debug(), info() and error() print
debug(c) == c.enabled /\ (c.level = "debug" \/ c.level = "info")
info(c) == c.enabled /\ c.level = "info"
error(c) == c.enabled /\ c.level # "none"

\* ------------------------------------------------------------------ state
VARIABLES
    localStorageSyncEnabled, \* config.localStorage ?? true
    wireShape,               \* shape in which the transport hands messages
    storage,                 \* localStorage entry of the collection's key
    pc,                      \* position of the sync session
    unsubscribed,            \* the cleanup function has been called
    isInitialSyncComplete,
    eventBuffer,
    lastEventId,
    receivedEventIds,        \* state of the Store<Set<number>>
    cachedData,              \* initialSync's cachedData
    view,                    \* the consuming view (rows, tx, batches)
    chan,                    \* messages the transport has still to deliver
    nextEventId,             \* next id the ledger assigns
    hs,                      \* write handlers
    readyCount,              \* calls of markReady
    phases,                  \* history: order of the bootstrap phases
    delivered,               \* history: event ids handed to onData
    replayed,                \* history: events replayed from the buffer
    snapshot,                \* history: what list.query resolved with
    viewAtSnapshot,          \* history: rows right after the snapshot step
    cacheAtStart,            \* history: the entry the session started with
    session,                 \* number of the sync session (calls of sync)
    initialSyncPromise,      \* the promise initialSync() returned
    cleanupCalls,            \* history: calls of the cleanup function
    redeliveries,            \* history: messages the transport handed twice
    ledger,                  \* TrpcSync: event rows saveEvent has stored
    reg,                     \* TrpcSync: registerEvent calls
    emitted,                 \* TrpcSync: history, the events ee.emit was called with
    subs,                    \* TrpcSync: eventsSubscription generators
    localStorage,            \* the browser's store: key -> stored text
    lastLoad,                \* the last loadFromLocalStorage call: its name,
                             \* its result, and stored[name] when it ran
    stored,                  \* history: what the last save or clear of each
                             \* collection name left (Null: nothing)
    logger,                  \* a Logger: the config given and this.config
    console,                 \* the console.debug/info/error calls made
    logCalls                 \* history: the Logger calls, the config of each
                             \* and whether it printed

engineVars == <<localStorageSyncEnabled, wireShape, storage, pc,
                unsubscribed, isInitialSyncComplete, eventBuffer, lastEventId,
                receivedEventIds, cachedData, view, chan, nextEventId, hs,
                readyCount, phases, delivered, replayed, snapshot,
                viewAtSnapshot, cacheAtStart, session, initialSyncPromise,
                cleanupCalls, redeliveries>>
busVars == <<ledger, reg, emitted, subs>>
libVars == <<localStorage, lastLoad, stored, logger, console, logCalls>>
vars == <<engineVars, busVars, libVars>>

\* what no step of a session changes
config == <<localStorageSyncEnabled, wireShape, cacheAtStart, session>>
history == <<phases, delivered, replayed, snapshot, viewAtSnapshot>>

IdleHandler == [st |-> "idle", kind |-> "insert",
                row |-> [id |-> 1, title |-> "a"], eventId |-> 0,
                waited |-> FALSE]

Init ==
    /\ localStorageSyncEnabled \in BOOLEAN
    /\ wireShape \in {"object", "array"}
    /\ storage \in IF localStorageSyncEnabled THEN InitialEntries
                  ELSE {NoEntry}
    /\ pc = "init"
    /\ unsubscribed = FALSE
    /\ isInitialSyncComplete = FALSE
    /\ eventBuffer = <<>>
    /\ lastEventId = 0
    /\ receivedEventIds = {}
    /\ cachedData = Null
    /\ view = [rows |-> EmptyView, tx |-> <<>>, batches |-> <<>>]
    /\ chan = <<>>
    /\ nextEventId = 1
    /\ hs = [h \in Handlers |-> IdleHandler]
    /\ readyCount = 0
    /\ phases = <<>>
    /\ delivered = <<>>
    /\ replayed = <<>>
    /\ snapshot = Null
    /\ viewAtSnapshot = EmptyView
    /\ cacheAtStart = storage
    /\ session = 1
    /\ initialSyncPromise = [st |-> "none", handlers |-> {}]
    /\ cleanupCalls = 0
    /\ redeliveries = 0
    /\ ledger = <<>>
    /\ reg = [r \in Regs |-> IdleReg]
    /\ emitted = {}
    /\ subs = [s \in Subs |-> NoSub]
    /\ localStorage = [k \in Keys |-> NoEntry]
    /\ lastLoad = [name |-> "none", after |-> Null, result |-> Null]
    /\ stored = [n \in CollectionNames |-> Null]
    /\ logger = NewLogger(NoConfig)
    /\ console = <<>>
    /\ logCalls = <<>>

\* ---------------------------------------------------------- sync session
SubscriptionOpen == pc # "init" /\ ~unsubscribed

\* sync(): config.trpcRouter.listen.subscribe(...) is the first call made
Subscribe ==
    /\ pc = "init"
    /\ pc' = "subscribed"
    /\ phases' = Append(phases, "subscribe")
    /\ UNCHANGED <<busVars, libVars, initialSyncPromise, cleanupCalls, redeliveries,
                   config, storage, unsubscribed, isInitialSyncComplete,
                   eventBuffer, lastEventId, receivedEventIds, cachedData,
                   view, chan, nextEventId, hs, readyCount, delivered,
                   replayed, snapshot, viewAtSnapshot>>

\* a cache load that hands the serializer to loadFromLocalStorage
InitialSyncLoad_Decoding ==
    IF localStorageSyncEnabled
    THEN loadFromLocalStorage(storage, "json")
    ELSE Null

\* initialSync(): loadFromLocalStorage<TItem[]>(config.name) is called
\* without the serializer argument
InitialSyncLoad ==
    IF localStorageSyncEnabled
    THEN loadFromLocalStorage(storage, "undefined")
    ELSE Null

\* initialSync() up to its await: cache load, begin, provisional rows,
\* then the call of list.query
InitialSyncStart ==
    /\ pc = "subscribed"
    /\ LET cached == InitialSyncLoad
           v1 == begin(view)
       IN /\ cachedData' = cached
          /\ view' = IF localStorageSyncEnabled /\ ~cached.null
                        /\ Len(cached.val) > 0
                     THEN commit(writeAll(v1, InsertOps(cached.val)))
                     ELSE v1
    /\ pc' = "awaiting"
    /\ phases' = Append(phases, "listQuery")
    /\ initialSyncPromise' = [st |-> "pending", handlers |-> {}]
    /\ UNCHANGED <<busVars, libVars, cleanupCalls, redeliveries,
                   config, storage, unsubscribed, isInitialSyncComplete,
                   eventBuffer, lastEventId, receivedEventIds, chan,
                   nextEventId, hs, readyCount, delivered, replayed,
                   snapshot, viewAtSnapshot>>

\* initialSync() after list.query resolved: snapshot install
CachedRows == IF cachedData.null THEN <<>> ELSE cachedData.val

SnapshotInstall(v, networkData) ==
    IF Len(networkData) > 0
    THEN commit(writeAll(writeAll(begin(v), DeleteOps(CachedRows)),
                         InsertOps(networkData)))
    ELSE v

SnapshotSave(entry, networkData) ==
    IF Len(networkData) > 0 /\ localStorageSyncEnabled
    THEN saveToLocalStorage(entry, networkData, "json")
    ELSE entry

\* a replay that writes none of the buffered events
BufferReplay_Dropped(v, buffer) == v

\* initialSync() step 4: replay of the buffered events
BufferReplay(v, buffer) ==
    IF Len(buffer) > 0
    THEN commit(writeAll(begin(v), EventOps(buffer)))
    ELSE v

ReplaySave(entry, buffer) ==
    IF Len(buffer) > 0 /\ localStorageSyncEnabled
    THEN updateAll(entry, buffer, "json", localStorageSyncEnabled)
    ELSE entry

ListResolve(networkData) ==
    /\ pc = "awaiting"
    /\ LET v1 == SnapshotInstall(view, networkData)
           s1 == SnapshotSave(storage, networkData)
       IN /\ view' = BufferReplay(v1, eventBuffer)
          /\ storage' = ReplaySave(s1, eventBuffer)
          /\ viewAtSnapshot' = v1.rows
    /\ isInitialSyncComplete' = TRUE
    /\ eventBuffer' = <<>>
    /\ replayed' = eventBuffer
    /\ snapshot' = Value(networkData)
    /\ readyCount' = readyCount + 1
    /\ pc' = "done"
    /\ phases' = phases
                 \o (IF Len(networkData) > 0 THEN <<"snapshot">> ELSE <<>>)
                 \o (IF Len(eventBuffer) > 0 THEN <<"replay">> ELSE <<>>)
    /\ initialSyncPromise' = [initialSyncPromise EXCEPT !.st = "fulfilled"]
    /\ UNCHANGED <<busVars, libVars, cleanupCalls, redeliveries,
                   config, unsubscribed, lastEventId, receivedEventIds,
                   cachedData, chan, nextEventId, hs, delivered>>

\* a rejection that leaves initialSync without calling markReady
ListReject_NotReady ==
    /\ pc = "awaiting"
    /\ pc' = "failed"
    /\ initialSyncPromise' = [initialSyncPromise EXCEPT !.st = "rejected"]
    /\ UNCHANGED <<busVars, libVars, cleanupCalls, redeliveries,
                   config, storage, unsubscribed, isInitialSyncComplete,
                   eventBuffer, lastEventId, receivedEventIds, cachedData,
                   view, chan, nextEventId, hs, readyCount, phases, delivered, replayed,
                   snapshot, viewAtSnapshot>>

\* a rejection after which the engine closes the subscription itself
ListReject_Unsubscribes ==
    /\ pc = "awaiting"
    /\ pc' = "failed"
    /\ unsubscribed' = TRUE
    /\ readyCount' = readyCount + 1
    /\ initialSyncPromise' = [initialSyncPromise EXCEPT !.st = "rejected"]
    /\ UNCHANGED <<busVars, libVars, cleanupCalls, redeliveries,
                   config, storage, isInitialSyncComplete,
                   eventBuffer, lastEventId, receivedEventIds, cachedData,
                   view, chan, nextEventId, hs, phases, delivered, replayed,
                   snapshot, viewAtSnapshot>>

\* a rejection after which the engine treats the initial sync as complete
ListReject_Completes ==
    /\ pc = "awaiting"
    /\ pc' = "failed"
    /\ isInitialSyncComplete' = TRUE
    /\ readyCount' = readyCount + 1
    /\ initialSyncPromise' = [initialSyncPromise EXCEPT !.st = "rejected"]
    /\ UNCHANGED <<busVars, libVars, cleanupCalls, redeliveries,
                   config, storage, unsubscribed, eventBuffer, lastEventId,
                   receivedEventIds, cachedData, view, chan, nextEventId,
                   hs, phases, delivered, replayed, snapshot,
                   viewAtSnapshot>>

\* initialSync() after list.query rejected: catch rethrows, finally
\* calls markReady
ListReject ==
    /\ pc = "awaiting"
    /\ pc' = "failed"
    /\ readyCount' = readyCount + 1
    /\ initialSyncPromise' = [initialSyncPromise EXCEPT !.st = "rejected"]
    /\ UNCHANGED <<busVars, libVars, cleanupCalls, redeliveries,
                   config, storage, unsubscribed, isInitialSyncComplete,
                   eventBuffer, lastEventId, receivedEventIds, cachedData,
                   view, chan, nextEventId, hs, phases, delivered, replayed,
                   snapshot, viewAtSnapshot>>

\* the cleanup function sync returned
Cleanup ==
    /\ pc \in {"awaiting", "done", "failed"}
    /\ ~unsubscribed
    /\ unsubscribed' = TRUE
    /\ cleanupCalls' = cleanupCalls + 1
    /\ UNCHANGED <<busVars, libVars, initialSyncPromise, redeliveries,
                   config, storage, pc, isInitialSyncComplete, eventBuffer,
                   lastEventId, receivedEventIds, cachedData, view, chan,
                   nextEventId, hs, readyCount, phases, delivered, replayed,
                   snapshot, viewAtSnapshot>>

\* ------------------------------------------------------------ transport
\* The server appends an event for this user while the subscription is
\* open; the transport queues it for onData in either wire shape.
Publish(ev) ==
    /\ SubscriptionOpen
    /\ nextEventId <= MaxEvents
    /\ ev.id = nextEventId
    /\ chan' = Append(chan, Wire(wireShape, ev))
    /\ nextEventId' = nextEventId + 1
    /\ UNCHANGED <<busVars, libVars, initialSyncPromise, cleanupCalls, redeliveries,
                   config, storage, pc, unsubscribed, isInitialSyncComplete,
                   eventBuffer, lastEventId, receivedEventIds, cachedData,
                   view, hs, readyCount, history>>

\* At-least-once delivery: the transport hands the message at the head of
\* its queue a second time (as after a reconnect).
Redeliver ==
    /\ chan # <<>>
    /\ ~unsubscribed
    /\ redeliveries < MaxRedeliveries
    /\ chan' = <<Head(chan)>> \o chan
    /\ redeliveries' = redeliveries + 1
    /\ UNCHANGED <<busVars, libVars, initialSyncPromise, cleanupCalls, config, storage,
                   pc, unsubscribed, isInitialSyncComplete, eventBuffer,
                   lastEventId, receivedEventIds, cachedData, view,
                   nextEventId, hs, readyCount, history>>

\* ------------------------------------------------------- write handlers
\* the rest of onInsert/onUpdate/onDelete after awaitEventId resolved
HandlerSave(entry, h) ==
    IF localStorageSyncEnabled
    THEN updateLocalStorageAfterWrite(entry, hs[h].kind, hs[h].row, "json",
                                      localStorageSyncEnabled)
    ELSE entry

RECURSIVE HandlersSave(_, _, _)
HandlersSave(entry, released, h) ==
    IF h > MaxHandlers THEN entry
    ELSE HandlersSave(IF h \in released THEN HandlerSave(entry, h) ELSE entry,
                      released, h + 1)

\* listeners that resolve on any change of the set
Released_Any(ids) == {h \in Handlers : hs[h].st = "waiting"}

\* listeners of receivedEventIds that awaitEventId registered: each one
\* whose id is in the new state unsubscribes and resolves
Released(ids) ==
    {h \in Handlers : hs[h].st = "waiting" /\ hs[h].eventId \in ids}

\* onData that records the id of an event when it buffers it
OnDataBuffer_Records ==
    /\ chan # <<>>
    /\ ~unsubscribed
    /\ ~isInitialSyncComplete
    /\ LET data == Normalize(Head(chan)).data
       IN /\ eventBuffer' = Append(eventBuffer, data)
          /\ delivered' = Append(delivered, data.id)
          /\ receivedEventIds' = receivedEventIds \cup {data.id}
    /\ chan' = Tail(chan)
    /\ UNCHANGED <<busVars, libVars, initialSyncPromise, cleanupCalls, redeliveries,
                   config, storage, pc, unsubscribed, isInitialSyncComplete,
                   lastEventId, cachedData, view,
                   nextEventId, hs, readyCount, phases, replayed, snapshot,
                   viewAtSnapshot>>

\* onData that buffers an event without looking at isInitialSyncComplete
OnDataBuffer_Always ==
    /\ chan # <<>>
    /\ ~unsubscribed
    /\ LET data == Normalize(Head(chan)).data
       IN /\ eventBuffer' = Append(eventBuffer, data)
          /\ delivered' = Append(delivered, data.id)
    /\ chan' = Tail(chan)
    /\ UNCHANGED <<busVars, libVars, initialSyncPromise, cleanupCalls,
                   redeliveries, config, storage, pc, unsubscribed,
                   isInitialSyncComplete, lastEventId, receivedEventIds,
                   cachedData, view, nextEventId, hs, readyCount, phases,
                   replayed, snapshot, viewAtSnapshot>>

\* onData while the initial sync is not complete: the event is buffered
OnDataBuffer ==
    /\ chan # <<>>
    /\ ~unsubscribed
    /\ ~isInitialSyncComplete
    /\ LET data == Normalize(Head(chan)).data
       IN /\ eventBuffer' = Append(eventBuffer, data)
          /\ delivered' = Append(delivered, data.id)
    /\ chan' = Tail(chan)
    /\ UNCHANGED <<busVars, libVars, initialSyncPromise, cleanupCalls, redeliveries,
                   config, storage, pc, unsubscribed, isInitialSyncComplete,
                   lastEventId, receivedEventIds, cachedData, view,
                   nextEventId, hs, readyCount, phases, replayed, snapshot,
                   viewAtSnapshot>>

\* onData that applies an event without looking at isInitialSyncComplete
OnDataLive_Unguarded ==
    /\ chan # <<>>
    /\ ~unsubscribed
    /\ LET data == Normalize(Head(chan)).data
           ids == receivedEventIds \cup {data.id}
           released == Released(ids)
           s1 == IF localStorageSyncEnabled
                 THEN updateLocalStorageAfterWrite(storage, data.action,
                          data.data, "undefined", localStorageSyncEnabled)
                 ELSE storage
       IN /\ view' = commit(write(begin(view), EventOp(data)))
          /\ storage' = HandlersSave(s1, released, 1)
          /\ receivedEventIds' = ids
          /\ hs' = [h \in Handlers |->
                      IF h \in released THEN [hs[h] EXCEPT !.st = "resolved"]
                      ELSE hs[h]]
          /\ lastEventId' = data.id
          /\ delivered' = Append(delivered, data.id)
    /\ chan' = Tail(chan)
    /\ phases' = Append(phases, "live")
    /\ UNCHANGED <<busVars, libVars, initialSyncPromise, cleanupCalls, redeliveries,
                   config, pc, unsubscribed, isInitialSyncComplete,
                   eventBuffer, cachedData, nextEventId, readyCount,
                   replayed, snapshot, viewAtSnapshot>>

\* onData after the initial sync: begin/write/commit, cache update, then
\* the id is recorded and the listeners run
OnDataLive ==
    /\ chan # <<>>
    /\ ~unsubscribed
    /\ isInitialSyncComplete
    /\ LET data == Normalize(Head(chan)).data
           ids == receivedEventIds \cup {data.id}
           released == Released(ids)
           s1 == IF localStorageSyncEnabled
                 THEN updateLocalStorageAfterWrite(storage, data.action,
                          data.data, "undefined", localStorageSyncEnabled)
                 ELSE storage
       IN /\ view' = commit(write(begin(view), EventOp(data)))
          /\ storage' = HandlersSave(s1, released, 1)
          /\ receivedEventIds' = ids
          /\ hs' = [h \in Handlers |->
                      IF h \in released THEN [hs[h] EXCEPT !.st = "resolved"]
                      ELSE hs[h]]
          /\ lastEventId' = data.id
          /\ delivered' = Append(delivered, data.id)
    /\ chan' = Tail(chan)
    /\ phases' = Append(phases, "live")
    /\ UNCHANGED <<busVars, libVars, initialSyncPromise, cleanupCalls, redeliveries,
                   config, pc, unsubscribed, isInitialSyncComplete,
                   eventBuffer, cachedData, nextEventId, readyCount,
                   replayed, snapshot, viewAtSnapshot>>

\* onInsert/onUpdate/onDelete up to the await of the mutation; the server
\* records the write, appends its event and queues the echo for the open
\* subscription
HandlerStart(h, kind, row) ==
    /\ hs[h].st = "idle"
    /\ nextEventId <= MaxEvents
    /\ hs' = [hs EXCEPT ![h] = [st |-> "mutating", kind |-> kind, row |-> row,
                                eventId |-> nextEventId, waited |-> FALSE]]
    /\ IF SubscriptionOpen
       THEN chan' = Append(chan, Wire(wireShape,
                       [id |-> nextEventId, action |-> kind, data |-> row]))
       ELSE chan' = chan
    /\ nextEventId' = nextEventId + 1
    /\ UNCHANGED <<busVars, libVars, initialSyncPromise, cleanupCalls, redeliveries,
                   config, storage, pc, unsubscribed, isInitialSyncComplete,
                   eventBuffer, lastEventId, receivedEventIds, cachedData,
                   view, readyCount, history>>

\* the mutation resolved with { item, eventId }: awaitEventId(eventId)
\* resolves at once when the id is in the set, else registers a listener
MutateResolve(h) ==
    /\ hs[h].st = "mutating"
    /\ IF hs[h].eventId \in receivedEventIds
       THEN /\ hs' = [hs EXCEPT ![h].st = "resolved"]
            /\ storage' = HandlerSave(storage, h)
       ELSE /\ hs' = [hs EXCEPT ![h].st = "waiting", ![h].waited = TRUE]
            /\ storage' = storage
    /\ UNCHANGED <<busVars, libVars, initialSyncPromise, cleanupCalls, redeliveries,
                   config, pc, unsubscribed, isInitialSyncComplete,
                   eventBuffer, lastEventId, receivedEventIds, cachedData,
                   view, chan, nextEventId, readyCount, history>>

\* a handler that records its write in the cache although the mutation
\* rejected
MutateReject_Saves(h) ==
    /\ hs[h].st = "mutating"
    /\ hs' = [hs EXCEPT ![h].st = "rejected"]
    /\ storage' = HandlerSave(storage, h)
    /\ UNCHANGED <<busVars, libVars, initialSyncPromise, cleanupCalls,
                   redeliveries, config, pc, unsubscribed,
                   isInitialSyncComplete, eventBuffer, lastEventId,
                   receivedEventIds, cachedData, view, chan, nextEventId,
                   readyCount, history>>

\* the mutation rejected: the handler rejects before awaitEventId
MutateReject(h) ==
    /\ hs[h].st = "mutating"
    /\ hs' = [hs EXCEPT ![h].st = "rejected"]
    /\ UNCHANGED <<busVars, libVars, initialSyncPromise, cleanupCalls, redeliveries,
                   config, storage, pc, unsubscribed, isInitialSyncComplete,
                   eventBuffer, lastEventId, receivedEventIds, cachedData,
                   view, chan, nextEventId, readyCount, history>>

\* ---------------------------------------------------------- specification
Next ==
    \/ Subscribe
    \/ InitialSyncStart
    \/ \E networkData \in Snapshots : ListResolve(networkData)
    \/ ListReject
    \/ Cleanup
    \/ \E ev \in Events : Publish(ev)
    \/ OnDataBuffer
    \/ OnDataLive
    \/ \E h \in Handlers, kind \in EventActions :
          \E row \in EventRows(kind) : HandlerStart(h, kind, row)
    \/ \E h \in Handlers : MutateResolve(h)
    \/ \E h \in Handlers : MutateReject(h)

Spec == Init /\ [][Next]_vars

\* a session whose sync() call creates a Store of its own
NewSession_FreshStore ==
    /\ unsubscribed
    /\ pc \in {"done", "failed"}
    /\ session < MaxSessions
    /\ session' = session + 1
    /\ pc' = "init"
    /\ unsubscribed' = FALSE
    /\ isInitialSyncComplete' = FALSE
    /\ eventBuffer' = <<>>
    /\ lastEventId' = 0
    /\ cachedData' = Null
    /\ chan' = <<>>
    /\ cacheAtStart' = storage
    /\ initialSyncPromise' = [st |-> "none", handlers |-> {}]
    /\ view' = [view EXCEPT !.rows = EmptyView, !.tx = <<>>]
    /\ receivedEventIds' = {}
    /\ UNCHANGED <<busVars, libVars, cleanupCalls, redeliveries,
                   localStorageSyncEnabled, wireShape, storage,
                   nextEventId, hs, readyCount, history>>

\* After the cleanup the collection is started again: sync() is about to be
\* called a second time on the same options. lastEventId, eventBuffer and
\* isInitialSyncComplete are locals of sync, receivedEventIds is the Store
\* trpcCollectionOptions created; the restarted collection is empty and the
\* messages of the closed subscription are gone.
NewSession ==
    /\ unsubscribed
    /\ pc \in {"done", "failed"}
    /\ session < MaxSessions
    /\ session' = session + 1
    /\ pc' = "init"
    /\ unsubscribed' = FALSE
    /\ isInitialSyncComplete' = FALSE
    /\ eventBuffer' = <<>>
    /\ lastEventId' = 0
    /\ cachedData' = Null
    /\ chan' = <<>>
    /\ cacheAtStart' = storage
    /\ initialSyncPromise' = [st |-> "none", handlers |-> {}]
    /\ view' = [view EXCEPT !.rows = EmptyView, !.tx = <<>>]
    /\ UNCHANGED <<busVars, libVars, cleanupCalls, redeliveries,
                   localStorageSyncEnabled, wireShape, storage,
                   receivedEventIds, nextEventId, hs, readyCount, history>>

\* the engine over several sync sessions of one collection
NextSessions == Next \/ NewSession

SpecSessions == Init /\ [][NextSessions]_vars

\* the write handlers called on the returned options with sync() never
\* called, as the unit tests do; a mutation that was called settles
NextDirect ==
    \/ \E h \in Handlers, kind \in EventActions :
          \E row \in EventRows(kind) : HandlerStart(h, kind, row)
    \/ \E h \in Handlers : MutateResolve(h)
    \/ \E h \in Handlers : MutateReject(h)

SpecDirect ==
    /\ Init
    /\ [][NextDirect]_vars
    /\ \A h \in Handlers : WF_vars(MutateResolve(h) \/ MutateReject(h))

\* the same engine behind a transport that may deliver a message twice
NextAtLeastOnce == Next \/ Redeliver

SpecAtLeastOnce == Init /\ [][NextAtLeastOnce]_vars

\* ------------------------------------------------- TrpcSync operations
\* tracked(event.id.toString(), event)
tracked(event) == [cursor |-> ToString(event.id), data |-> event]

\* subscriptions whose events.on listener is registered
Listening(s) == subs[s].st \in {"fetching", "live"}

\* an emitter whose listeners are registered when the live loop starts
emit_LiveOnly(ss, userId, event) ==
    [s \in Subs |->
        IF ss[s].st = "live"
        THEN [ss[s] EXCEPT !.queue = Append(@, [userId |-> userId, data |-> event])]
        ELSE ss[s]]

\* this.ee.emit("event", userId, event): every registered listener queues it
\* (queuedInFetch: history, the emissions queued during the catch-up fetch)
emit(ss, userId, event) ==
    [s \in Subs |->
        IF ss[s].st \in {"fetching", "live"}
        THEN [ss[s] EXCEPT !.queue = Append(@, [userId |-> userId, data |-> event]),
                           !.queuedInFetch = IF ss[s].st = "fetching"
                                             THEN @ + 1 ELSE @]
        ELSE ss[s]]

\* saveEvent({...event, userId}): the ledger stores a row under the next id
SavedRow(userId, r) == [id |-> Len(ledger) + 1, userId |-> userId, call |-> r]

\* the recipient whose saveEvent is pending
Recipient(c) == IF c.k = 0 THEN c.current ELSE c.others.ids[c.k]

\* for (const userId of otherUserIds) { if (userId === currentUserId) continue
NextRecipients(c) ==
    IF ~c.others.given THEN {}
    ELSE {j \in 1..Len(c.others.ids) : j > c.k /\ c.others.ids[j] # c.current}

NextRecipient(c) ==
    CHOOSE j \in NextRecipients(c) : \A i \in NextRecipients(c) : j <= i

\* rows the calls in progress may still store, and the rows one call stores
\* at most: the ledger of the model holds at most MaxLedger rows
Outstanding ==
    LET saving == {q \in Regs : reg[q].st = "saving"}
        left[S \in SUBSET Regs] ==
            IF S = {} THEN 0
            ELSE LET q == CHOOSE x \in S : TRUE
                 IN Cardinality(NextRecipients(reg[q])) + left[S \ {q}]
    IN left[saving]

RowsOf(current, others) ==
    1 + Cardinality({j \in 1..Len(others.ids) : others.ids[j] # current})

\* the two users are interchangeable: the first one that a call or a
\* subscription names is called u1
NoUserYet ==
    /\ \A q \in Regs : reg[q].st = "idle"
    /\ \A t \in Subs : subs[t].st = "none"

\* registerEvent up to its first await: saveEvent for the current user,
\* which stores the row, or rejects and registerEvent rejects with it
RegisterStart(r, current, others, ok) ==
    /\ reg[r].st = "idle"
    /\ NoUserYet => current = "u1"
    /\ \A q \in Regs : q < r => reg[q].st # "idle"
    /\ Len(ledger) + Outstanding + RowsOf(current, others) <= MaxLedger
    /\ ledger' = IF ok THEN Append(ledger, SavedRow(current, r)) ELSE ledger
    /\ reg' = [reg EXCEPT ![r] =
                 [st |-> IF ok THEN "saving" ELSE "rejected",
                  current |-> current, others |-> others,
                  k |-> 0, pending |-> IF ok THEN Len(ledger) + 1 ELSE 0,
                  result |-> 0]]
    /\ UNCHANGED <<engineVars, libVars, emitted, subs>>

\* a saveEvent resolved and another recipient is left: emit the saved
\* event, then saveEvent for the next other user, which stores the row, or
\* rejects and registerEvent rejects with it
RegisterNext(r, ok) ==
    /\ reg[r].st = "saving"
    /\ reg[r].pending # 0
    /\ NextRecipients(reg[r]) # {}
    /\ LET c == reg[r]
           saved == ledger[c.pending]
           j == NextRecipient(c)
       IN /\ subs' = emit(subs, Recipient(c), saved)
          /\ emitted' = emitted \cup {saved}
          /\ ledger' = IF ok THEN Append(ledger, SavedRow(c.others.ids[j], r))
                       ELSE ledger
          /\ reg' = [reg EXCEPT ![r].st = IF ok THEN "saving" ELSE "rejected",
                                ![r].k = j,
                                ![r].pending = IF ok THEN Len(ledger) + 1 ELSE 0,
                                ![r].result = IF c.k = 0 THEN saved.id
                                              ELSE c.result]
    /\ UNCHANGED <<engineVars, libVars>>

\* registerEvent returning the id of the event it saved last
RegisterReturn_LastId(r) ==
    /\ reg[r].st = "saving"
    /\ reg[r].pending # 0
    /\ NextRecipients(reg[r]) = {}
    /\ LET c == reg[r]
           saved == ledger[c.pending]
       IN /\ subs' = emit(subs, Recipient(c), saved)
          /\ emitted' = emitted \cup {saved}
          /\ reg' = [reg EXCEPT ![r].st = "done", ![r].pending = 0,
                                ![r].result = saved.id]
    /\ UNCHANGED <<engineVars, libVars, ledger>>

\* the last saveEvent resolved: emit, then return currentUserEvent.id
RegisterReturn(r) ==
    /\ reg[r].st = "saving"
    /\ reg[r].pending # 0
    /\ NextRecipients(reg[r]) = {}
    /\ LET c == reg[r]
           saved == ledger[c.pending]
       IN /\ subs' = emit(subs, Recipient(c), saved)
          /\ emitted' = emitted \cup {saved}
          /\ reg' = [reg EXCEPT ![r].st = "done", ![r].pending = 0,
                                ![r].result = IF c.k = 0 THEN saved.id
                                              ELSE c.result]
    /\ UNCHANGED <<engineVars, libVars, ledger>>

\* if (opts.lastEventId && opts.fetchLastEvents)
CatchesUp(lastId, hasFetch) == lastId # NullId /\ lastId # 0 /\ hasFetch

\* eventsSubscription pulled for the first time: the listener is
\* registered, then the catch-up fetch is called or the live loop entered
SubscriptionStart(s, userId, lastId, hasFetch) ==
    /\ subs[s].st = "none"
    /\ NoUserYet => userId = "u1"
    /\ \A t \in Subs : t < s => subs[t].st # "none"
    /\ subs' = [subs EXCEPT ![s] =
                  [st |-> IF CatchesUp(lastId, hasFetch) THEN "fetching"
                          ELSE "live",
                   userId |-> userId, lastEventId |-> lastId,
                   hasFetch |-> hasFetch, queue |-> <<>>, yielded |-> <<>>,
                   queuedInFetch |-> 0]]
    /\ UNCHANGED <<engineVars, libVars, ledger, reg, emitted>>

\* fetchLastEvents(lastEventId) reads the ledger: the rows after lastEventId
fetchLastEvents(lastId) == SelectSeq(ledger, LAMBDA e : e.id > lastId)

\* the events of one user, each tracked with its id
YieldFor(userId, events) ==
    LET mine == SelectSeq(events, LAMBDA e : e.userId = userId)
    IN [i \in 1..Len(mine) |-> tracked(mine[i])]

\* fetchLastEvents read the ledger and resolved: the catch-up events of the
\* user are yielded (the rows stored between the read and the resolution
\* reach the subscription through its queue only, as do those of a read that
\* happens at the resolution)
FetchResolve(s) ==
    /\ subs[s].st \in {"fetching", "fetchingAborted"}
    /\ subs' = [subs EXCEPT ![s].st = IF @ = "fetching" THEN "live"
                                       ELSE "aborted",
                  ![s].yielded = @ \o YieldFor(subs[s].userId,
                                     fetchLastEvents(subs[s].lastEventId))]
    /\ UNCHANGED <<engineVars, libVars, ledger, reg, emitted>>

\* a live loop without the userId test
LiveYield_Unfiltered(userId, entry) == <<tracked(entry.data)>>

\* what the live loop yields for one queued emission
LiveYield(userId, entry) ==
    IF entry.userId = userId THEN <<tracked(entry.data)>> ELSE <<>>

\* for await (const [userId, data] of iterable): one queued emission
SubscriptionPull(s) ==
    /\ subs[s].st \in {"live", "aborted"}
    /\ subs[s].queue # <<>>
    /\ subs' = [subs EXCEPT ![s].queue = Tail(@),
                  ![s].yielded = @ \o LiveYield(subs[s].userId,
                                                 Head(subs[s].queue))]
    /\ UNCHANGED <<engineVars, libVars, ledger, reg, emitted>>

\* opts.signal fires: events.on removes its listener and keeps the error
\* for the next pull that finds no unread emission; the generator itself
\* never reads the signal
SubscriptionAbort(s) ==
    /\ subs[s].st \in {"fetching", "live"}
    /\ subs' = [subs EXCEPT ![s].st = IF @ = "fetching" THEN "fetchingAborted"
                                       ELSE "aborted"]
    /\ UNCHANGED <<engineVars, libVars, ledger, reg, emitted>>

\* the live loop pulls after the signal fired and no emission is unread:
\* the iterator rejects with the AbortError and the generator ends
SubscriptionClose(s) ==
    /\ subs[s].st = "aborted"
    /\ subs[s].queue = <<>>
    /\ subs' = [subs EXCEPT ![s].st = "closed"]
    /\ UNCHANGED <<engineVars, libVars, ledger, reg, emitted>>

NextBus ==
    \/ \E r \in Regs, current \in Users, others \in OtherLists, ok \in BOOLEAN :
          RegisterStart(r, current, others, ok)
    \/ \E r \in Regs, ok \in BOOLEAN : RegisterNext(r, ok)
    \/ \E r \in Regs : RegisterReturn(r)
    \/ \E s \in Subs, userId \in Users, o \in SubscriptionOpts :
          SubscriptionStart(s, userId, o.lastEventId, o.hasFetch)
    \/ \E s \in Subs : FetchResolve(s)
    \/ \E s \in Subs : SubscriptionPull(s)

InitBus ==
    /\ Init
    /\ localStorageSyncEnabled
    /\ wireShape = "object"
    /\ storage = NoEntry

SpecBus == InitBus /\ [][NextBus]_vars

\* the bus with subscriptions whose signal may fire
NextBusCancel ==
    \/ NextBus
    \/ \E s \in Subs : SubscriptionAbort(s)
    \/ \E s \in Subs : SubscriptionClose(s)

SpecBusCancel == InitBus /\ [][NextBusCancel]_vars

\* --------------------------------------------- the cache functions alone
\* saveToLocalStorage(collectionName, data, serializer)
Save(collectionName, data) ==
    /\ localStorage' = setItem(localStorage, collectionName, data, "json")
    /\ stored' = [stored EXCEPT ![collectionName] = Value(data)]
    /\ UNCHANGED <<engineVars, busVars, lastLoad, logger, console, logCalls>>

\* loadFromLocalStorage(collectionName, serializer)
Load(collectionName) ==
    /\ lastLoad' = [name |-> collectionName,
                    after |-> stored[collectionName],
                    result |-> loadFromLocalStorage(
                                  getItem(localStorage, collectionName),
                                  "json")]
    /\ UNCHANGED <<engineVars, busVars, localStorage, stored, logger,
                   console, logCalls>>

\* clearLocalStorage(collectionName)
Clear(collectionName) ==
    /\ localStorage' = clearLocalStorage(localStorage, collectionName)
    /\ stored' = [stored EXCEPT ![collectionName] = Null]
    /\ UNCHANGED <<engineVars, busVars, lastLoad, logger, console, logCalls>>

NextStorage ==
    \/ \E n \in CollectionNames, data \in CacheValues : Save(n, data)
    \/ \E n \in CollectionNames : Load(n)
    \/ \E n \in CollectionNames : Clear(n)

SpecStorage == InitBus /\ [][NextStorage]_vars

\* ------------------------------------------------------- the Logger alone
\* new Logger(config, name)
LoggerNew(given) ==
    /\ logger' = NewLogger(given)
    /\ UNCHANGED <<engineVars, busVars, localStorage, lastLoad, stored,
                   console, logCalls>>

\* logger.debug / logger.info / logger.error
LoggerCall(method) ==
    /\ Len(logCalls) < MaxLogCalls
    /\ LET prints == CASE method = "debug" -> debug(logger.config)
                       [] method = "info" -> info(logger.config)
                       [] method = "error" -> error(logger.config)
       IN /\ console' = IF prints THEN Append(console, method) ELSE console
          /\ logCalls' = Append(logCalls,
                                [method |-> method, config |-> logger.config,
                                 printed |-> prints])
    /\ UNCHANGED <<engineVars, busVars, localStorage, lastLoad, stored, logger>>

NextLogger ==
    \/ \E given \in PartialConfigs : LoggerNew(given)
    \/ LoggerCall("debug")
    \/ LoggerCall("info")
    \/ LoggerCall("error")

SpecLogger == InitBus /\ [][NextLogger]_vars

\* ------------------------------------------------------------ properties
Count(seq, x) == Cardinality({i \in 1..Len(seq) : seq[i] = x})

EvIds(ops) == SelectSeq([i \in 1..Len(ops) |-> ops[i].ev], LAMBDA e : e # 0)

RECURSIVE Flatten(_)
Flatten(batches) ==
    IF batches = <<>> THEN <<>>
    ELSE EvIds(Head(batches)) \o Flatten(Tail(batches))

\* ids of the events whose writes are committed, in commit order
AppliedIds == Flatten(view.batches)

\* C1: every delivery of an event to onData yields exactly one committed
\* write: never more writes than deliveries, and once list.query has
\* resolved and the initial sync has run, exactly as many, whether the
\* event came while list.query was pending or afterwards.
C1_NoLostUpdate ==
    /\ \A e \in EventIds : Count(AppliedIds, e) <= Count(delivered, e)
    /\ pc = "done" =>
          \A e \in EventIds : Count(AppliedIds, e) = Count(delivered, e)

C1_Witness ==
    /\ pc = "done"
    /\ Len(replayed) = 1
    /\ Len(delivered) = 2
    /\ Count(AppliedIds, delivered[1]) = 1
    /\ Count(AppliedIds, delivered[2]) = 1

Before(a, b) ==
    \A i, j \in 1..Len(phases) : phases[i] = a /\ phases[j] = b => i < j

\* C2: the bootstrap phases come in a fixed order: subscribe first, then
\* list.query, then the snapshot install, then the buffer replay (at which
\* time the snapshot rows are committed), then the live applies, which
\* only happen with the initial sync over and the buffer empty.
C2_BootstrapOrder ==
    /\ phases # <<>> => phases[1] = "subscribe"
    /\ Before("subscribe", "listQuery")
    /\ Before("listQuery", "snapshot")
    /\ Before("listQuery", "replay")
    /\ Before("snapshot", "replay")
    /\ Before("listQuery", "live")
    /\ Before("snapshot", "live")
    /\ Before("replay", "live")
    /\ replayed # <<>> => Range(snapshot.val) \subseteq RowSet(viewAtSnapshot)
    /\ (\E i \in 1..Len(phases) : phases[i] = "live") =>
          pc = "done" /\ eventBuffer = <<>>

C2_Witness ==
    phases = <<"subscribe", "listQuery", "snapshot", "replay", "live">>

\* C3: after the buffer replay the id of every replayed event is in the
\* observed-id set.
C3_ReplayedIdsObserved ==
    pc = "done" =>
        \A i \in 1..Len(replayed) : replayed[i].id \in receivedEventIds

\* C4: an awaitEventId call is resolved only if its id is in the
\* observed-id set and is pending only while its id is absent: it resolves
\* in the step that adds the id, and at once when the id is already there.
C4_GateCorrect ==
    \A h \in Handlers :
        /\ hs[h].st = "resolved" => hs[h].eventId \in receivedEventIds
        /\ hs[h].st = "waiting" => hs[h].eventId \notin receivedEventIds

C4_Witness ==
    \E h \in Handlers :
        /\ hs[h].st = "resolved"
        /\ hs[h].waited
        /\ receivedEventIds = {1, 2}

\* C5: an id in the observed-id set belongs to an event that is already
\* committed to the view, in a transaction of its own; so does the id of
\* every write handler that has resolved.
C5_ObservedImpliesCommitted ==
    /\ \A e \in receivedEventIds :
          \E i \in 1..Len(view.batches) :
              Len(view.batches[i]) = 1 /\ view.batches[i][1].ev = e
    /\ \A h \in Handlers :
          hs[h].st = "resolved" => hs[h].eventId \in Range(AppliedIds)

C5_Witness ==
    /\ receivedEventIds # {}
    /\ \E h \in Handlers : hs[h].st = "resolved" /\ ~hs[h].waited

\* C6: a write handler whose mutation returned eventId e is resolved once
\* the echo with id e has been delivered to onData and the initial sync
\* has succeeded, whether the echo was buffered or applied live.
C6_WriteResolvesAfterEcho ==
    \A h \in Handlers :
        ( /\ pc = "done"
          /\ hs[h].st \in {"waiting", "resolved"}
          /\ hs[h].eventId \in Range(delivered) )
        => hs[h].st = "resolved"

UpsertRow(S, r) == {x \in S : x.id # r.id} \cup {r}
RemoveRow(S, r) == {x \in S : x.id # r.id}

RECURSIVE ApplyEvents(_, _)
ApplyEvents(S, events) ==
    IF events = <<>> THEN S
    ELSE ApplyEvents(IF Head(events).action = "delete"
                     THEN RemoveRow(S, Head(events).data)
                     ELSE UpsertRow(S, Head(events).data),
                     Tail(events))

NoLiveYet == \A i \in 1..Len(phases) : phases[i] # "live"

\* C7: right after a bootstrap the committed rows are the snapshot rows
\* with the buffered events applied in arrival order, insert and update
\* upserting by id and delete removing.
C7_ReplayResult ==
    pc = "done" /\ NoLiveYet =>
        RowSet(view.rows) = ApplyEvents(Range(snapshot.val), replayed)

\* Scenario B: snapshot [{1,a}] and one buffered update {1,b}
C7_Witness ==
    /\ pc = "done" /\ NoLiveYet
    /\ snapshot = Value(<<[id |-> 1, title |-> "a"]>>)
    /\ Len(replayed) = 1
    /\ replayed[1].action = "update"
    /\ replayed[1].data = [id |-> 1, title |-> "b"]
    /\ RowSet(view.rows) = {[id |-> 1, title |-> "b"]}

C9_NoOpenTransactionAtYield == Len(view.tx) = 0

\* C10: markReady is called exactly once per session, when list.query
\* resolves and when it rejects: never twice, and once the initial sync
\* is over it has been called.
C10_ReadyExactlyOnce ==
    /\ readyCount <= 1
    /\ pc \in {"done", "failed"} <=> readyCount = 1

C10_Witness == pc = "failed" /\ readyCount = 1

\* C11: when list.query rejects, the rejection reaches the caller of sync:
\* the rejected promise of initialSync has a handler that can observe it.
C11_FailureSurfaced ==
    pc = "failed" =>
        /\ initialSyncPromise.st = "rejected"
        /\ initialSyncPromise.handlers # {}

\* C12: after list.query rejected the engine has not closed the
\* subscription (only the cleanup function does) and has called list.query
\* exactly once.
C12_StaysOpenNoRetry ==
    pc = "failed" =>
        /\ Count(phases, "listQuery") = 1
        /\ unsubscribed <=> cleanupCalls > 0

C12_Witness ==
    /\ pc = "failed"
    /\ ~unsubscribed
    /\ Len(eventBuffer) = 2

\* C13: once the cleanup function has been called the session writes
\* nothing more to the view and adds no id to the observed-id set.
C13_NoWritesAfterCleanup ==
    [][unsubscribed => view' = view /\ receivedEventIds' = receivedEventIds]_vars

\* C14: an event id is processed at most once: a second delivery of the
\* same id to onData causes no second write to the view.
C14_AtMostOncePerId ==
    \A e \in EventIds : Count(AppliedIds, e) <= 1

\* ids of the events subscription s has yielded, in order
YieldedIds(s) ==
    [i \in 1..Len(subs[s].yielded) |-> subs[s].yielded[i].data.id]

\* C15: the ids one eventsSubscription yields, catch-up events followed by
\* live events, are strictly increasing: no id is yielded twice.
C15_StrictlyIncreasing ==
    \A s \in Subs : \A i, j \in 1..Len(subs[s].yielded) :
        i < j => YieldedIds(s)[i] < YieldedIds(s)[j]

\* C16: the ids a fresh engine applies when it is fed by one subscription,
\* catch-up followed by live delivery, never decrease (the engine writes
\* each event it is handed, in the order of delivery).
C16_NonDecreasing ==
    \A s \in Subs : \A i, j \in 1..Len(subs[s].yielded) :
        i < j => YieldedIds(s)[i] <= YieldedIds(s)[j]

\* C17: a subscription yields only events saved for its own userId, each
\* with its id, as a string, as cursor, in the catch-up phase and in the
\* live phase.
C17_RecipientIsolation ==
    \A s \in Subs : \A i \in 1..Len(subs[s].yielded) :
        LET y == subs[s].yielded[i]
        IN /\ y.data.userId = subs[s].userId
           /\ y.cursor = ToString(y.data.id)
           /\ y.data \in Range(ledger)

C17_Witness ==
    \E s \in Subs :
        /\ subs[s].st = "live"
        /\ subs[s].lastEventId = 1 /\ subs[s].hasFetch
        /\ subs[s].queue = <<>>
        /\ Len(subs[s].yielded) = 2
        /\ \E e \in emitted : e.userId # subs[s].userId /\ e.id > 1

\* the recipients of a registerEvent call and what the call has stored and
\* emitted for one of them
Recipients(c) == {c.current} \cup Range(c.others.ids)
RowsFor(r, u) == {e \in Range(ledger) : e.call = r /\ e.userId = u}
EmittedFor(r, u) == {e \in emitted : e.call = r /\ e.userId = u}

\* C18: a registerEvent call that has returned has stored exactly one row
\* and emitted exactly one event for each recipient, the current user and
\* every user of otherUserIds, whatever the list.
C18_ExactlyOncePerRecipient ==
    \A r \in Regs : reg[r].st = "done" =>
        \A u \in Recipients(reg[r]) :
            /\ Cardinality(RowsFor(r, u)) = 1
            /\ Cardinality(EmittedFor(r, u)) = 1

\* C19: registerEvent resolves with the id saveEvent gave the current
\* user's event, the event emitted for the current user, and never with the
\* id of another recipient's row; the row is stored when it resolves.
C19_ReturnsCurrentUserId ==
    \A r \in Regs : reg[r].st = "done" =>
        /\ RowsFor(r, reg[r].current) = EmittedFor(r, reg[r].current)
        /\ \E e \in RowsFor(r, reg[r].current) : e.id = reg[r].result
        /\ \A e \in Range(ledger) :
              e.id = reg[r].result => e.call = r /\ e.userId = reg[r].current

C19_Witness ==
    \E r \in Regs :
        /\ reg[r].st = "done"
        /\ reg[r].others.given
        /\ Cardinality({e \in Range(ledger) : e.call = r}) = 2
        /\ \E q \in Regs : q # r /\ reg[q].st = "done" /\ reg[q].result < reg[r].result

\* C20: when a saveEvent of a registerEvent call rejects, the call rejects
\* and no event of that call has been emitted.
C20_NothingEmittedOnFailure ==
    \A r \in Regs : reg[r].st = "rejected" =>
        {e \in emitted : e.call = r} = {}

\* C21: a subscription opened with a lastEventId and a fetchLastEvents
\* function enters its live loop having yielded every event fetchLastEvents
\* returned for its user, each tagged with its id, and nothing else; so for
\* every integer lastEventId, 0 included.
C21_CatchUpBeforeLive ==
    [][\A s \in Subs :
          ( /\ subs[s].st # "live"
            /\ subs'[s].st = "live"
            /\ subs'[s].lastEventId # NullId
            /\ subs'[s].hasFetch )
          => subs'[s].yielded =
                YieldFor(subs'[s].userId, fetchLastEvents(subs'[s].lastEventId))]_vars

\* the signal of subscription s has fired
Cancelled(s) == subs[s].st \in {"fetchingAborted", "aborted", "closed"}

\* C22: once its cancellation signal has fired a subscription yields no
\* further event.
C22_NoYieldAfterCancel ==
    [][\A s \in Subs : Cancelled(s) => subs'[s].yielded = subs[s].yielded]_vars

\* C23: whatever the cache held at session start (nothing, undecodable
\* text, decodable text that is no row array, a storage that throws), once
\* list.query has resolved the session is live and ready, the rows right
\* after the snapshot step are the snapshot rows and the rows after the
\* replay are the snapshot rows with the buffered events applied.
C23_CacheAdvisory ==
    ~snapshot.null =>
        /\ pc = "done" /\ isInitialSyncComplete /\ readyCount = 1
        /\ initialSyncPromise.st = "fulfilled"
        /\ RowSet(viewAtSnapshot) = Range(snapshot.val)
        /\ NoLiveYet =>
              RowSet(view.rows) = ApplyEvents(Range(snapshot.val), replayed)

C23_Witness ==
    /\ cacheAtStart = Unreadable
    /\ pc = "done" /\ NoLiveYet
    /\ Len(snapshot.val) = 1
    /\ Len(replayed) = 1

\* C24: with local storage enabled and a non-empty row array cached at
\* session start, the cached rows are committed to the view while
\* list.query is pending.
C24_ProvisionalRows ==
    ( /\ pc = "awaiting"
      /\ localStorageSyncEnabled
      /\ cacheAtStart.kind = "json"
      /\ Len(cacheAtStart.val) > 0 )
    => RowSet(view.rows) = Range(cacheAtStart.val)

\* C25: after a successful snapshot with local storage enabled (and a
\* storage that works) the cache holds exactly the snapshot rows, also when
\* the snapshot is empty.
C25_CacheHoldsSnapshot ==
    ( /\ pc = "done" /\ NoLiveYet
      /\ localStorageSyncEnabled
      /\ cacheAtStart # Unreadable
      /\ replayed = <<>>
      /\ \A h \in Handlers : hs[h].st = "idle" )
    => storage = Stringify(snapshot.val)

\* the rows the cache mirror holds
CacheRows(entry) ==
    LET loaded == loadFromLocalStorage(entry, "json")
    IN IF loaded.null THEN <<>> ELSE loaded.val

\* one event applied to the cache mirror by updateLocalStorageAfterWrite
CacheApply(entry, ev) ==
    updateLocalStorageAfterWrite(entry, ev.action, ev.data, "json", TRUE)

\* C26: applying an insert or update event a second time leaves the rows as
\* they were after the first time, and a delete of an absent id changes no
\* row, in the view and in the cache mirror.
C26_IdempotentApply ==
    \A ev \in Events :
        /\ ev.action # "delete" =>
              /\ ApplyOp(ApplyOp(view.rows, EventOp(ev)), EventOp(ev))
                     = ApplyOp(view.rows, EventOp(ev))
              /\ CacheRows(CacheApply(CacheApply(storage, ev), ev))
                     = CacheRows(CacheApply(storage, ev))
        /\ ev.action = "delete" =>
              /\ view.rows[ev.data.id] = Absent
                     => ApplyOp(view.rows, EventOp(ev)) = view.rows
              /\ (\A i \in 1..Len(CacheRows(storage)) :
                      CacheRows(storage)[i].id # ev.data.id)
                     => CacheRows(CacheApply(storage, ev)) = CacheRows(storage)

\* the event a message of the transport carries
EventOf(msg) == IF msg.shape = "array" THEN msg.elems[2] ELSE msg.data

\* C27: onData processes a message as it processes the tagged envelope of
\* the event the message carries, whichever shape it came in: same
\* buffering decision, same write to the view, same id recorded.
C27_ShapeIndependent ==
    [][(chan # <<>> /\ chan' = Tail(chan)) =>
          LET data == Envelope(EventOf(Head(chan))).data
          IN /\ delivered' = Append(delivered, data.id)
             /\ IF ~isInitialSyncComplete
                THEN /\ eventBuffer' = Append(eventBuffer, data)
                     /\ view' = view
                     /\ receivedEventIds' = receivedEventIds
                ELSE /\ eventBuffer' = eventBuffer
                     /\ view' = commit(write(begin(view), EventOp(data)))
                     /\ receivedEventIds' = receivedEventIds \cup {data.id}]_vars

C27_Witness ==
    /\ wireShape = "array"
    /\ pc = "done"
    /\ Len(replayed) = 1 /\ replayed[1].action = "update"
    /\ Len(delivered) = 2
    /\ receivedEventIds = {2}
    /\ chan = <<>>

\* C28: the observed-id set belongs to one sync session: while a session is
\* starting (sync called or about to be, list.query not yet resolved)
\* the set is empty, whatever earlier sessions observed.
C28_SetPerSession ==
    pc \in {"init", "subscribed", "awaiting"} => receivedEventIds = {}

\* C29: no step removes an id from the observed-id set: live apply, replay,
\* awaitEventId, cleanup and the start of a new session only add to it or
\* leave it.
C29_SetOnlyGrows ==
    [][receivedEventIds \subseteq receivedEventIds']_vars

C29_Witness ==
    /\ session = 2
    /\ pc = "done"
    /\ receivedEventIds = {1, 2}
    /\ Len(delivered) = 2
    /\ cleanupCalls = 1

\* C30: a write handler called directly on the returned options, whose
\* mutation has been called, resolves (or rejects with its mutation).
C30_DirectCallResolves ==
    \A h \in Handlers :
        (hs[h].st = "mutating") ~> (hs[h].st \in {"resolved", "rejected"})

C31_WitnessCleared ==
    /\ lastLoad.name = "todos"
    /\ lastLoad.result.null
    /\ ~stored["users"].null

\* C32: an enabled logger prints debug() iff its level is debug or info,
\* info() iff its level is info and error() iff its level is not none; a
\* logger that is not enabled prints nothing; a logger built without a
\* config is enabled with level info.
C32_LevelFiltering ==
    /\ \A i \in 1..Len(logCalls) :
          LET c == logCalls[i].config
              m == logCalls[i].method
          IN logCalls[i].printed <=>
                /\ c.enabled
                /\ \/ m = "debug" /\ c.level \in {"debug", "info"}
                   \/ m = "info" /\ c.level = "info"
                   \/ m = "error" /\ c.level # "none"
    /\ Len(console) = Cardinality({i \in 1..Len(logCalls) : logCalls[i].printed})
    /\ logger.given = NoConfig =>
          logger.config = [enabled |-> TRUE, level |-> "info"]

\* a debug() call printed at level info and an error() call on a logger
\* that is not enabled did not
C32_Witness ==
    /\ Len(logCalls) = 2
    /\ logCalls[1].method = "debug" /\ logCalls[1].config.level = "info"
    /\ logCalls[1].printed
    /\ logCalls[2].method = "error" /\ ~logCalls[2].config.enabled
    /\ logCalls[2].config.level = "error"
    /\ ~logCalls[2].printed

\* C33: once isInitialSyncComplete is true it stays true for the rest of
\* the session, and whenever it is true the event buffer is empty: onData
\* never finds a buffered event in the live phase and never buffers again.
C33_LiveIsFinal ==
    /\ [](isInitialSyncComplete => eventBuffer = <<>>)
    /\ [][isInitialSyncComplete => isInitialSyncComplete']_vars

\* buffered events were replayed and an event was applied live after them
C33_Witness ==
    /\ isInitialSyncComplete
    /\ replayed # <<>>
    /\ lastEventId # 0
    /\ Len(delivered) > Len(replayed)

C34_WitnessPending ==
    /\ hs[1].st = "waiting"
    /\ hs[1].eventId = 2
    /\ receivedEventIds = {1}

\* C35: after list.query has rejected the session stays failed and never
\* completes its initial sync; every event onData receives from then on
\* is appended to the buffer, the view and receivedEventIds are never
\* written again, and a write handler that waits for an event id keeps
\* waiting.
C35_FailedStaysBuffering ==
    [][pc = "failed" =>
          /\ pc' = "failed"
          /\ ~isInitialSyncComplete'
          /\ view' = view
          /\ receivedEventIds' = receivedEventIds
          /\ delivered' # delivered =>
                /\ Len(eventBuffer') = Len(eventBuffer) + 1
                /\ SubSeq(eventBuffer', 1, Len(eventBuffer)) = eventBuffer
                /\ eventBuffer'[Len(eventBuffer')].id =
                      delivered'[Len(delivered')]
          /\ \A h \in Handlers :
                hs[h].st = "waiting" => hs'[h] = hs[h]]_vars

\* the initial sync failed, the echo of a write was buffered, and the
\* handler of that write is waiting for its id
C35_Witness ==
    /\ pc = "failed"
    /\ hs[1].st = "waiting"
    /\ \E i \in 1..Len(eventBuffer) : eventBuffer[i].id = hs[1].eventId
    /\ hs[1].eventId \notin receivedEventIds
    /\ view.batches = <<>>

\* C36: an event emitted while a subscription waits for its catch-up fetch
\* is queued by the subscription; the queue loses nothing while the fetch
\* is pending, the fetch ends in the live loop with the catch-up events
\* yielded, and the live loop then takes the queue in order, yielding each
\* event of the subscriber's user after everything yielded before.
C36_QueuedDuringCatchUp ==
    [][\A s \in Subs :
          LET a == subs[s]
              b == subs'[s]
          IN /\ a.st = "fetching" =>
                  /\ b.st \in {"fetching", "live"}
                  /\ Len(b.queue) >= Len(a.queue)
                  /\ SubSeq(b.queue, 1, Len(a.queue)) = a.queue
                  /\ \A e \in emitted' \ emitted :
                        \E i \in (Len(a.queue) + 1)..Len(b.queue) :
                            b.queue[i] = [userId |-> e.userId, data |-> e]
                  /\ b.st = "fetching" => b.yielded = <<>>
             /\ a.st = "live" /\ a.queue # <<>> /\ b.queue # a.queue =>
                  \/ /\ Len(b.queue) > Len(a.queue)
                     /\ SubSeq(b.queue, 1, Len(a.queue)) = a.queue
                     /\ b.yielded = a.yielded
                  \/ /\ b.queue = Tail(a.queue)
                     /\ b.yielded =
                          IF Head(a.queue).userId = a.userId
                          THEN Append(a.yielded, tracked(Head(a.queue).data))
                          ELSE a.yielded]_vars

\* an event of the subscriber was emitted during the catch-up fetch, and
\* the live loop has yielded it after the catch-up events
C36_Witness ==
    \E s \in Subs :
        /\ subs[s].st = "live"
        /\ subs[s].queuedInFetch = 1
        /\ subs[s].queue = <<>>
        /\ Len(subs[s].yielded) = 3
        /\ subs[s].yielded[3].data.id = 3
        /\ YieldedIds(s) = <<2, 3, 3>>

\* C37: a write handler whose mutation rejects is rejected in that step
\* with the cache left as it was, has never registered a waiter on
\* receivedEventIds, and does nothing afterwards.
C37_RejectedMutation ==
    /\ [](\A h \in Handlers : hs[h].st = "rejected" => ~hs[h].waited)
    /\ [][\A h \in Handlers :
             /\ hs[h].st = "mutating" /\ hs'[h].st = "rejected" =>
                   /\ storage' = storage
                   /\ receivedEventIds' = receivedEventIds
             /\ hs[h].st = "rejected" => hs'[h] = hs[h]]_vars

\* the mutation of an insert rejected in a live session whose cache holds
\* rows, none of them the row of the insert
C37_Witness ==
    /\ hs[1].st = "rejected"
    /\ hs[1].kind = "insert"
    /\ localStorageSyncEnabled
    /\ isInitialSyncComplete
    /\ storage.kind = "json"
    /\ storage.val # <<>>
    /\ \A i \in 1..Len(storage.val) : storage.val[i] # hs[1].row

\* C38: the cache holds at most one row per id.
C38_OneRowPerId ==
    storage.kind = "json" =>
        \A i, j \in 1..Len(storage.val) :
            storage.val[i].id = storage.val[j].id => i = j

\* the storage throws on every read and write of the cache
FailingCache == localStorageSyncEnabled /\ storage = Unreadable

\* a live onData step commits its event, records its id and releases the
\* waiter of that id
LiveStepCompletes ==
    (isInitialSyncComplete /\ delivered' # delivered) =>
        LET id == delivered'[Len(delivered')]
        IN /\ Len(view'.batches) = Len(view.batches) + 1
           /\ EvIds(view'.batches[Len(view'.batches)]) = <<id>>
           /\ id \in receivedEventIds'
           /\ \A h \in Handlers :
                 hs[h].st = "waiting" /\ hs[h].eventId = id =>
                    hs'[h].st = "resolved"

\* the replay commits the buffered events in one transaction
ReplayStepCommits ==
    (~isInitialSyncComplete /\ isInitialSyncComplete' /\ eventBuffer # <<>>) =>
        /\ Len(view'.batches) > 0
        /\ view'.batches[Len(view'.batches)] = EventOps(eventBuffer)

\* the replay records the ids of the buffered events
ReplayStepRecords ==
    (~isInitialSyncComplete /\ isInitialSyncComplete') =>
        \A i \in 1..Len(eventBuffer) :
            eventBuffer[i].id \in receivedEventIds'

\* a handler whose mutation resolved with an id already observed resolves
HandlerStepResolves ==
    \A h \in Handlers :
        ( /\ hs[h].st = "mutating"
          /\ hs'[h].st \notin {"mutating", "rejected"}
          /\ hs[h].eventId \in receivedEventIds )
        => hs'[h].st = "resolved"

\* C39: with a cache whose every access throws, a live event is still
\* committed to the view and its id recorded, a buffer replay still commits
\* the buffered events and records their ids, and a write handler whose
\* event id is observed still resolves.
C39_CacheFailureSwallowed ==
    [][FailingCache =>
          /\ LiveStepCompletes
          /\ ReplayStepCommits
          /\ ReplayStepRecords
          /\ HandlerStepResolves]_vars

\* the part of C39 that does not rest on the replay recording ids: with a
\* failing cache the live events, the commits of the replay and the write
\* handlers go through
CacheFailureSwallowedButReplayIds ==
    [][FailingCache =>
          /\ LiveStepCompletes
          /\ ReplayStepCommits
          /\ HandlerStepResolves]_vars

\* with a failing cache a replay, a live event and a handler have gone through
CacheFailureSwallowed_Witness ==
    /\ FailingCache
    /\ replayed # <<>>
    /\ lastEventId # 0
    /\ hs[1].st = "resolved"

====
